---- MODULE Spec2Model ----
(***************************************************************************)
(* A model of the data-access layer of dev-events:                         *)
(*   - lib/mongodb.ts        the cached mongoose connection                *)
(*   - database/booking.model.ts   the Booking and Event schemas, their    *)
(*                           pre-save hooks, slugify and normalizeTime     *)
(* Strings the code inspects character by character (titles, slugs, times, *)
(* emails) are sequences of one-character strings.                         *)
(***************************************************************************)
EXTENDS Integers, Sequences, FiniteSets, TLC

VARIABLES
    \* ---- lib/mongodb.ts
    uri,             \* process.env.MONGODB_URI is a non-empty string
    globalMongoose,  \* globalThis._mongoose: 0 (undefined) or a cache object
    cached,          \* the cache object the current module instance is bound to
    moduleCount,     \* how many times the module has been evaluated
    caches,          \* cache object -> [conn, promise] (0 is null)
    promises,        \* promise returned by mongoose.connect -> its state and cache
    callers,         \* each connectToDatabase() invocation's position and outcome
    \* ---- database/booking.model.ts, Event part
    eventStore,      \* the persisted Event collection: _id -> record or NoDoc
    doc,             \* the in-memory Event document a client holds
    lastSave,        \* how the last Event save() ended, and whether it was an insert
    \* ---- database/booking.model.ts, Booking part
    bookingStore,    \* the persisted Booking collection (a set of records)
    bsave,           \* each Booking save() in progress: its position and document
    \* ---- normalizeTime as a pure function
    timeIn,          \* the structured description of the time text handed over
    timeOut          \* the outcome of normalizeTime on its rendering

connVars == <<uri, globalMongoose, cached, moduleCount, caches, promises, callers>>
eventVars == <<eventStore, doc, lastSave>>
bookingVars == <<bookingStore, bsave>>
timeVars == <<timeIn, timeOut>>
vars == <<connVars, eventVars, bookingVars, timeVars>>

(***************************************************************************)
(* Bounds                                                                  *)
(***************************************************************************)
MaxCallers == 2
MaxModules == 2
MaxHour == 24      \* hours tried by the normalizeTime check: 0..MaxHour
MaxMinute == 60    \* minutes tried: 0..MaxMinute
MaxWidth == 3      \* digits an hour or a minute is written with
MaxGap == 1        \* blanks between the digits and the meridiem
MaxSavers == 2     \* Booking save() calls in progress at once

Callers == 1..MaxCallers
CacheIds == 1..MaxModules
\* one more than a correct cache can ever need, so the cap never binds
PromiseIds == 1..(MaxModules + 1)

(***************************************************************************)
(* lib/mongodb.ts                                                          *)
(***************************************************************************)
EmptyCache == [conn |-> 0, promise |-> 0]

\* value: the handle returned, the failed promise, or (err_config) the
\* connection the cache held when the call was refused.
\* late: the promise this call awaits had already rejected when it was called
IdleCaller ==
    [pc |-> "idle", cache |-> 0, awaits |-> 0, result |-> "none", value |-> 0,
     late |-> FALSE]

NoCache == [conn |-> -1, promise |-> -1]

NumCaches == Cardinality({k \in CacheIds : caches[k] # NoCache})

\* what each component's actions leave alone
ConnOnly == UNCHANGED <<eventStore, doc, lastSave, bookingStore, bsave, timeIn, timeOut>>
EventOnly == UNCHANGED <<connVars, bookingStore, bsave, timeIn, timeOut>>
BookingOnly == UNCHANGED <<connVars, doc, lastSave, timeIn, timeOut>>
TimeOnly == UNCHANGED <<connVars, eventStore, doc, lastSave, bookingStore, bsave>>

NumPromises == Cardinality({p \in PromiseIds : promises[p].state # "unused"})

\* line 38: if (!uri) throw
MissingUri_AfterCache(k) == ~uri /\ caches[k].conn = 0 /\ caches[k].promise = 0

MissingUri(k) == ~uri

\* line 48: if (!cached.promise)
MustConnect_ConnOnly(k) == caches[k].conn = 0

MustConnect_RetryFailed(k) ==
    \/ caches[k].promise = 0
    \/ promises[caches[k].promise].state = "rejected"

MustConnect(k) == caches[k].promise = 0

\* The synchronous part of connectToDatabase(), up to its first await (or its
\* return or throw before it), run on the current module instance's cache.
Call(c) ==
    /\ callers[c].pc # "awaiting"
    /\ LET k == cached IN
       IF MissingUri(k)
       THEN /\ callers' = [callers EXCEPT ![c] =
                  [pc |-> "done", cache |-> k, awaits |-> 0,
                   result |-> "err_config", value |-> caches[k].conn,
                   late |-> FALSE]]
            /\ UNCHANGED <<caches, promises>>
       ELSE IF caches[k].conn # 0
       THEN /\ callers' = [callers EXCEPT ![c] =
                  [pc |-> "done", cache |-> k, awaits |-> 0,
                   result |-> "ok", value |-> caches[k].conn, late |-> FALSE]]
            /\ UNCHANGED <<caches, promises>>
       ELSE IF MustConnect(k)
       THEN \E p \in PromiseIds :
                /\ promises[p].state = "unused"
                /\ \A q \in PromiseIds : q < p => promises[q].state # "unused"
                /\ promises' = [promises EXCEPT ![p] = [state |-> "pending", cache |-> k]]
                /\ caches' = [caches EXCEPT ![k].promise = p]
                /\ callers' = [callers EXCEPT ![c] =
                      [pc |-> "awaiting", cache |-> k, awaits |-> p,
                       result |-> "none", value |-> 0, late |-> FALSE]]
       ELSE /\ callers' = [callers EXCEPT ![c] =
                  [pc |-> "awaiting", cache |-> k, awaits |-> caches[k].promise,
                   result |-> "none", value |-> 0,
                   late |-> promises[caches[k].promise].state = "rejected"]]
            /\ UNCHANGED <<caches, promises>>
    /\ UNCHANGED <<uri, globalMongoose, cached, moduleCount>>
    /\ ConnOnly

\* mongoose.connect(uri, options) succeeds: the promise fulfils with a handle.
ConnectFulfils(p) ==
    /\ promises[p].state = "pending"
    /\ promises' = [promises EXCEPT ![p].state = "fulfilled"]
    /\ UNCHANGED <<uri, globalMongoose, cached, moduleCount, caches, callers>>
    /\ ConnOnly

\* mongoose.connect(uri, options) fails: the promise rejects.
ConnectRejects(p) ==
    /\ promises[p].state = "pending"
    /\ promises' = [promises EXCEPT ![p].state = "rejected"]
    /\ UNCHANGED <<uri, globalMongoose, cached, moduleCount, caches, callers>>
    /\ ConnOnly

\* The continuation of connectToDatabase() after `await cached.promise`.
Resume(c) ==
    /\ callers[c].pc = "awaiting"
    /\ LET p == callers[c].awaits
           k == callers[c].cache
       IN  \/ /\ promises[p].state = "fulfilled"
              /\ caches' = [caches EXCEPT ![k].conn = p]
              /\ globalMongoose' = k
              /\ callers' = [callers EXCEPT ![c] =
                    [callers[c] EXCEPT !.pc = "done", !.awaits = 0,
                                       !.result = "ok", !.value = p]]
           \/ /\ promises[p].state = "rejected"
              /\ callers' = [callers EXCEPT ![c] =
                    [callers[c] EXCEPT !.pc = "done", !.awaits = 0,
                                       !.result = "err_connect", !.value = p]]
              /\ UNCHANGED <<caches, globalMongoose>>
    /\ UNCHANGED <<uri, cached, moduleCount, promises>>
    /\ ConnOnly

\* The module is evaluated again (hot reload): line 24.
Reinit ==
    /\ moduleCount < MaxModules
    /\ moduleCount' = moduleCount + 1
    /\ IF globalMongoose # 0
       THEN /\ cached' = globalMongoose
            /\ UNCHANGED caches
       ELSE /\ cached' = NumCaches + 1
            /\ caches' = [caches EXCEPT ![NumCaches + 1] = EmptyCache]
    /\ UNCHANGED <<uri, globalMongoose, promises, callers>>
    /\ ConnOnly

\* The environment defines or removes MONGODB_URI between calls.
SetUri ==
    /\ uri' = ~uri
    /\ UNCHANGED <<globalMongoose, cached, moduleCount, caches, promises, callers>>
    /\ ConnOnly

ConnNext ==
    \/ \E c \in Callers : Call(c)
    \/ \E c \in Callers : Resume(c)
    \/ \E p \in PromiseIds : ConnectFulfils(p)
    \/ \E p \in PromiseIds : ConnectRejects(p)
    \/ Reinit
    \/ SetUri

(***************************************************************************)
(* Characters                                                              *)
(***************************************************************************)
UpperChars == <<"A","B","C","D","E","F","G","H","I","J","K","L","M",
                "N","O","P","Q","R","S","T","U","V","W","X","Y","Z">>

LowerChars == <<"a","b","c","d","e","f","g","h","i","j","k","l","m",
                "n","o","p","q","r","s","t","u","v","w","x","y","z">>

DigitChars == <<"0","1","2","3","4","5","6","7","8","9">>

InSeq(ch, chars) == \E i \in 1..Len(chars) : chars[i] = ch

IndexOf(ch, chars) == CHOOSE i \in 1..Len(chars) : chars[i] = ch

IsDigit(ch) == InSeq(ch, DigitChars)

\* \s of the regular expressions, and the characters String.trim() removes
IsSpace(ch) == ch \in {" ", "\t", "\n"}

DigitVal(ch) == IndexOf(ch, DigitChars) - 1

LowerChar(ch) == IF InSeq(ch, UpperChars) THEN LowerChars[IndexOf(ch, UpperChars)] ELSE ch

\* String.prototype.toLowerCase
ToLowerCase(s) == [i \in 1..Len(s) |-> LowerChar(s[i])]

RECURSIVE TrimStart(_)
TrimStart(s) == IF s # <<>> /\ IsSpace(Head(s)) THEN TrimStart(Tail(s)) ELSE s

RECURSIVE TrimEnd(_)
TrimEnd(s) ==
    IF s # <<>> /\ IsSpace(s[Len(s)]) THEN TrimEnd(SubSeq(s, 1, Len(s) - 1)) ELSE s

\* String.prototype.trim
Trim(s) == TrimEnd(TrimStart(s))

AllDigits(s) == \A i \in 1..Len(s) : IsDigit(s[i])

\* parseInt(s, 10) of a string of digits
RECURSIVE ParseInt(_)
ParseInt(s) ==
    IF s = <<>> THEN 0 ELSE 10 * ParseInt(SubSeq(s, 1, Len(s) - 1)) + DigitVal(s[Len(s)])

\* String(n) of a natural number
RECURSIVE NatToString(_)
NatToString(n) ==
    IF n < 10 THEN <<DigitChars[n + 1]>>
    ELSE NatToString(n \div 10) \o <<DigitChars[(n % 10) + 1]>>

\* String(n).padStart(2, '0')
PadStart2(n) == LET t == NatToString(n) IN IF Len(t) < 2 THEN <<"0">> \o t ELSE t

(***************************************************************************)
(* normalizeTime: booking.model.ts lines 103-128                           *)
(***************************************************************************)
\* /^(\d{1,2}):(\d{2})$/ : the match's two groups, or <<>> when it fails
MatchH24(s) ==
    IF /\ Len(s) \in {4, 5}
       /\ s[Len(s) - 2] = ":"
       /\ AllDigits(SubSeq(s, 1, Len(s) - 3))
       /\ AllDigits(SubSeq(s, Len(s) - 1, Len(s)))
    THEN <<SubSeq(s, 1, Len(s) - 3), SubSeq(s, Len(s) - 1, Len(s))>>
    ELSE <<>>

\* /^(\d{1,2})(?::(\d{2}))?\s*(am|pm)$/ : the three groups (the second <<>>
\* when the minutes are absent), or <<>> when the match fails
MatchH12(s) ==
    LET n == Len(s)
        period == IF n >= 2 THEN SubSeq(s, n - 1, n) ELSE <<>>
        body == TrimEnd(SubSeq(s, 1, n - 2))
        b == Len(body)
        withMinutes ==
            /\ b \in {4, 5}
            /\ body[b - 2] = ":"
            /\ AllDigits(SubSeq(body, 1, b - 3))
            /\ AllDigits(SubSeq(body, b - 1, b))
        hourOnly == b \in {1, 2} /\ AllDigits(body)
    IN  IF n < 3 \/ period \notin {<<"a", "m">>, <<"p", "m">>} THEN <<>>
        ELSE IF withMinutes
        THEN <<SubSeq(body, 1, b - 3), SubSeq(body, b - 1, b), period>>
        ELSE IF hourOnly THEN <<body, <<>>, period>>
        ELSE <<>>

TimeError(msg) == [kind |-> msg, value |-> <<>>]

TimeOk(hh, mm) == [kind |-> "ok", value |-> PadStart2(hh) \o <<":">> \o PadStart2(mm)]

\* lines 122-123
To24_NoNoonCase(hh, period) ==
    IF period = <<"p", "m">> THEN hh + 12
    ELSE IF period = <<"a", "m">> /\ hh = 12 THEN 0
    ELSE hh

To24(hh, period) ==
    IF period = <<"p", "m">> /\ hh # 12 THEN hh + 12
    ELSE IF period = <<"a", "m">> /\ hh = 12 THEN 0
    ELSE hh

normalizeTime(input) ==
    LET trimmed == ToLowerCase(Trim(input))
        h24 == MatchH24(trimmed)
        h12 == MatchH12(trimmed)
    IN  IF h24 # <<>>
        THEN LET hh == ParseInt(h24[1])
                 mm == ParseInt(h24[2])
             IN  IF hh < 0 \/ hh > 23 \/ mm < 0 \/ mm > 59
                 THEN TimeError("Invalid time")
                 ELSE TimeOk(hh, mm)
        ELSE IF h12 # <<>>
        THEN LET hh == ParseInt(h12[1])
                 mm == IF h12[2] # <<>> THEN ParseInt(h12[2]) ELSE 0
                 period == h12[3]
             IN  IF hh < 1 \/ hh > 12 \/ mm < 0 \/ mm > 59
                 THEN TimeError("Invalid time")
                 ELSE TimeOk(To24(hh, period), mm)
        ELSE TimeError("Unrecognized time format")

(***************************************************************************)
(* normalizeTime on every text of a bounded family                         *)
(***************************************************************************)
Meridiems == {<<>>, <<"a","m">>, <<"p","m">>, <<"A","M">>, <<"p","M">>, <<"m">>}

NumDigits(n) == IF n < 10 THEN 1 ELSE IF n < 100 THEN 2 ELSE 3

\* A time text: optional blanks, the hour h written with hw digits, optionally
\* a colon, the minute m written with mw digits (none when mw = 0), gap
\* blanks, a meridiem (or none), optional blanks.
TimeInputs ==
    {t \in [h : 0..MaxHour, hw : 1..MaxWidth, colon : BOOLEAN, m : 0..MaxMinute,
            mw : 0..MaxWidth, gap : 0..MaxGap, mer : Meridiems, pad : BOOLEAN] :
        /\ t.hw >= NumDigits(t.h)
        /\ IF t.mw = 0 THEN t.m = 0 ELSE t.mw >= NumDigits(t.m) /\ t.colon
        /\ (t.mer = <<>> => t.gap = 0)}

RECURSIVE Zeros(_)
Zeros(n) == IF n <= 0 THEN <<>> ELSE <<"0">> \o Zeros(n - 1)

Blanks(n) == [i \in 1..n |-> " "]

Written(n, w) == Zeros(w - NumDigits(n)) \o NatToString(n)

Render(t) ==
    Blanks(IF t.pad THEN 1 ELSE 0)
    \o Written(t.h, t.hw)
    \o (IF t.colon THEN <<":">> ELSE <<>>)
    \o (IF t.mw = 0 THEN <<>> ELSE Written(t.m, t.mw))
    \o Blanks(t.gap)
    \o t.mer
    \o (IF t.pad THEN <<"\t", " ">> ELSE <<>>)

NoTimeInput ==
    [h |-> 0, hw |-> 1, colon |-> FALSE, m |-> 0, mw |-> 0,
     gap |-> 0, mer |-> <<>>, pad |-> FALSE]

Normalize ==
    /\ timeOut.kind = "pending"
    /\ timeOut' = normalizeTime(Render(timeIn))
    /\ UNCHANGED timeIn
    /\ TimeOnly

(***************************************************************************)
(* slugify: booking.model.ts lines 86-97                                   *)
(***************************************************************************)
IsSlugChar(ch) == InSeq(ch, LowerChars) \/ IsDigit(ch)

\* .replace(/[^a-z0-9]+/g, '-')
RECURSIVE ReplaceInvalidRuns(_)
ReplaceInvalidRuns(s) ==
    IF s = <<>> THEN <<>>
    ELSE IF IsSlugChar(Head(s)) THEN <<Head(s)>> \o ReplaceInvalidRuns(Tail(s))
    ELSE IF Len(s) >= 2 /\ ~IsSlugChar(s[2]) THEN ReplaceInvalidRuns(Tail(s))
    ELSE <<"-">> \o ReplaceInvalidRuns(Tail(s))

RECURSIVE StripLeadingHyphens(_)
StripLeadingHyphens(s) ==
    IF s # <<>> /\ Head(s) = "-" THEN StripLeadingHyphens(Tail(s)) ELSE s

RECURSIVE StripTrailingHyphens(_)
StripTrailingHyphens(s) ==
    IF s # <<>> /\ s[Len(s)] = "-"
    THEN StripTrailingHyphens(SubSeq(s, 1, Len(s) - 1)) ELSE s

\* .replace(/^-+|-+$/g, '')
StripHyphens(s) == StripTrailingHyphens(StripLeadingHyphens(s))

\* .replace(/-+/g, '-')
RECURSIVE CollapseHyphens(_)
CollapseHyphens(s) ==
    IF s = <<>> THEN <<>>
    ELSE IF Head(s) = "-" /\ Len(s) >= 2 /\ s[2] = "-" THEN CollapseHyphens(Tail(s))
    ELSE <<Head(s)>> \o CollapseHyphens(Tail(s))

slugify(value) ==
    CollapseHyphens(StripHyphens(ReplaceInvalidRuns(Trim(ToLowerCase(value)))))

(***************************************************************************)
(* Dates. A date text is [fmt, day, min]: "date" is YYYY-MM-DD (midnight   *)
(* UTC of day), "iso" is YYYY-MM-DDTHH:mm:ss.sssZ (minute min of day),     *)
(* "garbage" is a text Date cannot parse. A Date's time value is minutes   *)
(* since day 0, or NaN.                                                    *)
(***************************************************************************)
NaN == [nan |-> TRUE, t |-> 0]

\* new Date(text)
NewDate(text) ==
    IF text.fmt = "date" THEN [nan |-> FALSE, t |-> text.day * 1440]
    ELSE IF text.fmt = "iso" THEN [nan |-> FALSE, t |-> text.day * 1440 + text.min]
    ELSE NaN

\* Date.prototype.toISOString
ToISOString_DateOnly(dt) == [fmt |-> "date", day |-> dt.t \div 1440, min |-> 0]

ToISOString(dt) == [fmt |-> "iso", day |-> dt.t \div 1440, min |-> dt.t % 1440]

(***************************************************************************)
(* The Event schema and its pre-save hook: booking.model.ts lines 133-217  *)
(***************************************************************************)
EventIds == {1, 2}

NoDoc == [exists |-> FALSE]

\* Texts a client supplies. <<>> and "" are an absent (or empty) value.
TitleInputs ==
    { <<" ","M","y"," ","T","a","l","k">>,
      <<"!","?">>,
      <<" ">> }

SlugInputs == { <<>>, <<"x">> }

\* description stands for the required text and array fields the hook never
\* touches (description, overview, image, venue, location, mode, audience,
\* agenda, organizer, tags): present or absent
DescriptionInputs == { "", "d1" }

DateInputs ==
    { [fmt |-> "date", day |-> 3, min |-> 0],
      [fmt |-> "garbage", day |-> 0, min |-> 0] }

TimeTexts ==
    { <<"2",":","3","0"," ","P","M">>,
      <<"2","5",":","0","0">> }

NoEventDoc ==
    [held |-> FALSE, id |-> 0, isNew |-> FALSE, title |-> <<>>, slug |-> <<>>,
     description |-> "", date |-> [fmt |-> "garbage", day |-> 0, min |-> 0],
     time |-> <<>>, modified |-> {}]

Fields(d) ==
    [exists |-> TRUE, title |-> d.title, slug |-> d.slug,
     description |-> d.description, date |-> d.date, time |-> d.time]

\* new Event({...}): the schema's trim setters run on title, date and time
\* (a date text has no surrounding blanks here); every supplied path is
\* marked modified.
NewEvent(id, title, slug, description, date, time) ==
    /\ ~eventStore[id].exists
    /\ doc' = [held |-> TRUE, id |-> id, isNew |-> TRUE, title |-> Trim(title),
               slug |-> slug, description |-> description, date |-> date,
               time |-> Trim(time),
               modified |-> {"title", "description", "date", "time"}
                            \cup (IF slug # <<>> THEN {"slug"} ELSE {})]
    /\ UNCHANGED <<eventStore, lastSave>>
    /\ EventOnly

\* Event.findById(id): a document initialised from the stored record.
FindEvent(id) ==
    /\ eventStore[id].exists
    /\ LET r == eventStore[id] IN
       doc' = [held |-> TRUE, id |-> id, isNew |-> FALSE, title |-> r.title,
               slug |-> r.slug, description |-> r.description, date |-> r.date,
               time |-> r.time, modified |-> {}]
    /\ UNCHANGED <<eventStore, lastSave>>
    /\ EventOnly

\* doc.<path> = value: the path is marked modified when the value changes.
Assign(d, path, value) ==
    IF d[path] = value THEN d
    ELSE [[d EXCEPT ![path] = value] EXCEPT !.modified = @ \cup {path}]

SetTitle(title) ==
    /\ doc.held
    /\ doc' = Assign(doc, "title", Trim(title))
    /\ UNCHANGED <<eventStore, lastSave>>
    /\ EventOnly

SetDescription(description) ==
    /\ doc.held
    /\ doc' = Assign(doc, "description", description)
    /\ UNCHANGED <<eventStore, lastSave>>
    /\ EventOnly

SetTime(time) ==
    /\ doc.held
    /\ doc' = Assign(doc, "time", Trim(time))
    /\ UNCHANGED <<eventStore, lastSave>>
    /\ EventOnly

\* The schema's validators, run by save() before the pre('save') hooks:
\* every required path holds a non-empty value (lines 135-175).
Validates(d) ==
    /\ d.title # <<>>
    /\ d.slug # <<>>
    /\ d.description # ""
    /\ d.time # <<>>

\* line 193: if (this.isModified('title') || !this.slug)
RederivesSlug(d) == "title" \in d.modified \/ d.slug = <<>>

\* The pre('save') hook, lines 190-211: the document as the hook leaves it
\* and the error handed to next ("" when none).
PreSave(d) ==
    LET d1 == IF RederivesSlug(d) THEN Assign(d, "slug", slugify(d.title)) ELSE d
        dt == NewDate(d1.date)
        d2 == Assign(d1, "date", ToISOString(dt))
        nt == normalizeTime(d2.time)
        d3 == Assign(d2, "time", nt.value)
    IN  IF dt.nan THEN [d |-> d1, err |-> "Invalid date"]
        ELSE IF nt.kind # "ok" THEN [d |-> d2, err |-> nt.kind]
        ELSE [d |-> d3, err |-> ""]

\* The unique index on slug (lines 147, 184): another record holds the slug.
DuplicateSlug(store, d) ==
    \E other \in EventIds :
        other # d.id /\ store[other].exists /\ store[other].slug = d.slug

\* How save() ends for document d as the hook left it with error err.
SaveOutcome(store, d, err) ==
    IF err # "" THEN err
    ELSE IF (d.isNew \/ "slug" \in d.modified) /\ DuplicateSlug(store, d) THEN "duplicate key"
    ELSE "ok"

\* The collection after save(): an insert of a new document, an update of
\* the modified paths of a stored one, nothing when the save was rejected.
Persisted_IgnoringError(store, d, outcome) ==
    [store EXCEPT ![d.id] = Fields(d)]

Persisted(store, d, outcome) ==
    IF outcome # "ok" THEN store
    ELSE IF d.isNew \/ ~store[d.id].exists THEN [store EXCEPT ![d.id] = Fields(d)]
    ELSE LET Pick(f) == IF f \in d.modified THEN d[f] ELSE store[d.id][f]
         IN  [store EXCEPT ![d.id] =
                [exists |-> TRUE, title |-> Pick("title"), slug |-> Pick("slug"),
                 description |-> Pick("description"), date |-> Pick("date"),
                 time |-> Pick("time")]]

\* doc.save()
Save ==
    /\ doc.held
    /\ IF ~Validates(doc)
       THEN /\ lastSave' = [outcome |-> "ValidationError", isNew |-> doc.isNew]
            /\ UNCHANGED <<eventStore, doc>>
       ELSE LET h == PreSave(doc)
                outcome == SaveOutcome(eventStore, h.d, h.err)
            IN  /\ eventStore' = Persisted(eventStore, h.d, outcome)
                /\ doc' = IF outcome = "ok"
                          THEN [h.d EXCEPT !.isNew = FALSE, !.modified = {}]
                          ELSE h.d
                /\ lastSave' = [outcome |-> outcome, isNew |-> doc.isNew]
    /\ EventOnly

EventNext ==
    \/ \E id \in EventIds, title \in TitleInputs, slug \in SlugInputs,
          description \in DescriptionInputs, date \in DateInputs, time \in TimeTexts :
            NewEvent(id, title, slug, description, date, time)
    \/ \E id \in EventIds : FindEvent(id)
    \/ \E title \in TitleInputs : SetTitle(title)
    \/ \E description \in DescriptionInputs \cup {"d2"} : SetDescription(description)
    \/ \E time \in TimeTexts : SetTime(time)
    \/ Save

(***************************************************************************)
(* The Booking schema and its pre-save hook: booking.model.ts lines 17-55  *)
(***************************************************************************)
Savers == 1..MaxSavers

EmailInputs ==
    { <<" ","U","@","E",".","C">>,
      <<"u","@","e">> }

\* EMAIL_RE = /^[^\s@]+@[^\s@]+\.[^\s@]+$/
EmailMatches(s) ==
    /\ \A i \in 1..Len(s) : ~IsSpace(s[i])
    /\ Cardinality({i \in 1..Len(s) : s[i] = "@"}) = 1
    /\ LET at == CHOOSE i \in 1..Len(s) : s[i] = "@"
       IN  /\ at > 1
           /\ \E i \in (at + 2)..(Len(s) - 1) : s[i] = "."

\* An Event as the Event model stores it, for the records Bookings refer to.
StoredEvent ==
    [exists |-> TRUE, title |-> <<"G","o">>, slug |-> <<"g","o">>,
     description |-> "d1", date |-> [fmt |-> "iso", day |-> 3, min |-> 0],
     time |-> <<"0","9",":","0","0">>]

IdleSave == [pc |-> "idle", eventId |-> 0, email |-> <<>>, exists |-> FALSE, error |-> ""]

\* a save() that ended with an error: nothing of its document is kept
Rejected(msg) == [IdleSave EXCEPT !.pc = "rejected", !.error = msg]

\* An Event is created through the Event model (line 217).
EventInserted(id) ==
    /\ ~eventStore[id].exists
    /\ eventStore' = [eventStore EXCEPT ![id] = StoredEvent]
    /\ UNCHANGED <<bookingStore, bsave>>
    /\ BookingOnly

\* An Event is deleted through the Event model (line 217).
EventDeleted(id) ==
    /\ eventStore[id].exists
    /\ eventStore' = [eventStore EXCEPT ![id] = NoDoc]
    /\ UNCHANGED <<bookingStore, bsave>>
    /\ BookingOnly

\* new Booking({eventId, email}).save() up to the hook's await: the email
\* setters (trim, lowercase), the validators, then Event.exists is issued.
\* eventId 0 is an absent eventId.
BookingSave(s, eventId, email) ==
    /\ bsave[s].pc \in {"idle", "saved", "rejected"}
    /\ LET e == ToLowerCase(Trim(email)) IN
       IF eventId = 0 \/ e = <<>> \/ ~EmailMatches(e)
       THEN bsave' = [bsave EXCEPT ![s] = Rejected("ValidationError")]
       ELSE bsave' = [bsave EXCEPT ![s] =
                [pc |-> "lookup", eventId |-> eventId, email |-> e,
                 exists |-> FALSE, error |-> ""]]
    /\ UNCHANGED <<bookingStore, eventStore>>
    /\ BookingOnly

\* line 47: if (!exists) throw
Passes_Unchecked(exists) == TRUE

Passes(exists) == exists

\* The lookup completes and the hook continues (lines 46-49).
LookupReturns(s) ==
    /\ bsave[s].pc = "lookup"
    /\ LET exists == eventStore[bsave[s].eventId].exists IN
       IF Passes(exists)
       THEN bsave' = [bsave EXCEPT ![s].pc = "checked", ![s].exists = exists]
       ELSE bsave' = [bsave EXCEPT ![s] = Rejected("Referenced Event does not exist")]
    /\ UNCHANGED <<bookingStore, eventStore>>
    /\ BookingOnly

\* The lookup itself fails: the catch hands the error to next (lines 50-52).
LookupFails(s) ==
    /\ bsave[s].pc = "lookup"
    /\ bsave' = [bsave EXCEPT ![s] = Rejected("lookup failed")]
    /\ UNCHANGED <<bookingStore, eventStore>>
    /\ BookingOnly

\* After next(): the document is inserted. sawEvent records what this save's
\* own lookup found.
BookingInsert(s) ==
    /\ bsave[s].pc = "checked"
    /\ bookingStore' = bookingStore \cup
          {[eventId |-> bsave[s].eventId, email |-> bsave[s].email,
            sawEvent |-> bsave[s].exists]}
    /\ bsave' = [bsave EXCEPT ![s] = [IdleSave EXCEPT !.pc = "saved"]]
    /\ UNCHANGED eventStore
    /\ BookingOnly

BookingNext ==
    \/ \E id \in EventIds : EventInserted(id)
    \/ \E id \in EventIds : EventDeleted(id)
    \/ \E s \in Savers, eventId \in EventIds \cup {0}, email \in EmailInputs :
          BookingSave(s, eventId, email)
    \/ \E s \in Savers : LookupReturns(s)
    \/ \E s \in Savers : LookupFails(s)
    \/ \E s \in Savers : BookingInsert(s)

(***************************************************************************)
(* Specifications: one per component, the others at rest                   *)
(***************************************************************************)
\* The module has been evaluated once, nothing is stored, no document is held.
\* the cached connection, MONGODB_URI defined or not
Init ==
    /\ uri \in BOOLEAN
    /\ globalMongoose = 0
    /\ cached = 1
    /\ moduleCount = 1
    /\ caches = [k \in CacheIds |-> IF k = 1 THEN EmptyCache ELSE NoCache]
    /\ promises = [p \in PromiseIds |-> [state |-> "unused", cache |-> 0]]
    /\ callers = [c \in Callers |-> IdleCaller]
    /\ eventStore = [id \in EventIds |-> NoDoc]
    /\ doc = NoEventDoc
    /\ lastSave = [outcome |-> "none", isNew |-> FALSE]
    /\ bookingStore = {}
    /\ bsave = [s \in Savers |-> IdleSave]
    /\ timeIn = NoTimeInput
    /\ timeOut = [kind |-> "pending", value |-> <<>>]

Spec == Init /\ [][ConnNext]_vars

\* Event documents and their save()
InitEvent ==
    /\ uri = TRUE
    /\ globalMongoose = 0
    /\ cached = 1
    /\ moduleCount = 1
    /\ caches = [k \in CacheIds |-> IF k = 1 THEN EmptyCache ELSE NoCache]
    /\ promises = [p \in PromiseIds |-> [state |-> "unused", cache |-> 0]]
    /\ callers = [c \in Callers |-> IdleCaller]
    /\ eventStore = [id \in EventIds |-> NoDoc]
    /\ doc = NoEventDoc
    /\ lastSave = [outcome |-> "none", isNew |-> FALSE]
    /\ bookingStore = {}
    /\ bsave = [s \in Savers |-> IdleSave]
    /\ timeIn = NoTimeInput
    /\ timeOut = [kind |-> "pending", value |-> <<>>]

SpecEvent == InitEvent /\ [][EventNext]_vars

\* Booking documents and their save()
InitBooking ==
    /\ uri = TRUE
    /\ globalMongoose = 0
    /\ cached = 1
    /\ moduleCount = 1
    /\ caches = [k \in CacheIds |-> IF k = 1 THEN EmptyCache ELSE NoCache]
    /\ promises = [p \in PromiseIds |-> [state |-> "unused", cache |-> 0]]
    /\ callers = [c \in Callers |-> IdleCaller]
    /\ eventStore = [id \in EventIds |-> NoDoc]
    /\ doc = NoEventDoc
    /\ lastSave = [outcome |-> "none", isNew |-> FALSE]
    /\ bookingStore = {}
    /\ bsave = [s \in Savers |-> IdleSave]
    /\ timeIn = NoTimeInput
    /\ timeOut = [kind |-> "pending", value |-> <<>>]

SpecBooking == InitBooking /\ [][BookingNext]_vars

\* normalizeTime alone, on every text of the family
InitTime ==
    /\ uri = TRUE
    /\ globalMongoose = 0
    /\ cached = 1
    /\ moduleCount = 1
    /\ caches = [k \in CacheIds |-> IF k = 1 THEN EmptyCache ELSE NoCache]
    /\ promises = [p \in PromiseIds |-> [state |-> "unused", cache |-> 0]]
    /\ callers = [c \in Callers |-> IdleCaller]
    /\ eventStore = [id \in EventIds |-> NoDoc]
    /\ doc = NoEventDoc
    /\ lastSave = [outcome |-> "none", isNew |-> FALSE]
    /\ bookingStore = {}
    /\ bsave = [s \in Savers |-> IdleSave]
    /\ timeIn \in TimeInputs
    /\ timeOut = [kind |-> "pending", value |-> <<>>]

SpecTime == InitTime /\ [][Normalize]_vars

(***************************************************************************)
(* The cached connection: claims C1, C2, C3, C9 (specification Spec)       *)
(***************************************************************************)
\* mongoose.connect calls made on behalf of cache k
ConnectsOn(k) ==
    Cardinality({p \in PromiseIds : promises[p].state # "unused" /\ promises[p].cache = k})

\* the establishment attempt of cache k has failed
Failed(k) == caches[k].promise > 0 /\ promises[caches[k].promise].state = "rejected"

\* C1: however the calls made on one cache before its connection exists
\* interleave, mongoose.connect is invoked exactly once for that cache, every
\* such call awaits that one promise, and all the calls that resolve return
\* the same handle.
C1_OneConnectSharedHandle ==
    \A k \in CacheIds :
        /\ ConnectsOn(k) <= 1
        /\ \A c \in Callers :
              (callers[c].cache = k /\ callers[c].result # "err_config"
                  /\ callers[c].pc # "idle")
              => /\ ConnectsOn(k) = 1
                 /\ callers[c].pc = "awaiting" => callers[c].awaits = caches[k].promise
        /\ \A c1, c2 \in Callers :
              (/\ callers[c1].cache = k /\ callers[c2].cache = k
               /\ callers[c1].result = "ok" /\ callers[c2].result = "ok")
              => callers[c1].value = callers[c2].value

\* C1 witness: one call has resolved with the handle while another call on the
\* same cache, started before the connection existed, still awaits the same
\* attempt.
C1_Witness ==
    \E c1, c2 \in Callers :
        /\ c1 # c2
        /\ callers[c1].cache = callers[c2].cache
        /\ callers[c1].result = "ok"
        /\ callers[c2].pc = "awaiting"
        /\ callers[c2].awaits = callers[c1].value

\* C2: across module reinitializations at most one connection establishment
\* is ever started in the process.
C2_OneEstablishmentAcrossReloads == NumPromises <= 1

\* C3 as stated: a call made while a live connection exists returns the
\* cached handle whatever the URI, and the missing-configuration failure
\* occurs only when there is neither a connection nor an attempt underway.
C3_CachedHandleWhateverUri ==
    [][\A c \in Callers :
          Call(c) =>
             /\ caches[cached].conn > 0
                  => /\ callers'[c].result = "ok"
                     /\ callers'[c].value = caches[cached].conn
             /\ callers'[c].result = "err_config"
                  => caches[cached].conn = 0 /\ caches[cached].promise = 0]_vars

\* C3 as amended: the URI is checked first. A call made while the URI is
\* unset fails with the missing-configuration error whatever the cache holds
\* and touches nothing; a call made while the URI is set and a live connection
\* exists returns the cached handle without starting an attempt; and the
\* missing-configuration failure occurs only when the URI is unset.
C3_UriCheckedFirst ==
    [][\A c \in Callers :
          Call(c) =>
             IF ~uri
             THEN /\ callers'[c].result = "err_config"
                  /\ UNCHANGED <<caches, promises>>
             ELSE /\ callers'[c].result # "err_config"
                  /\ caches[cached].conn > 0
                       => /\ callers'[c].result = "ok"
                          /\ callers'[c].value = caches[cached].conn
                          /\ UNCHANGED <<caches, promises>>]_vars

\* C3 witness: a call failed with the missing-configuration error although
\* the cache it was made on holds a live connection.
C3_Witness ==
    \E c \in Callers :
        /\ callers[c].result = "err_config"
        /\ callers[c].value > 0
        /\ caches[callers[c].cache].conn = callers[c].value

\* C9 as stated: once the attempt of a cache has failed, the rejected promise
\* stays in the slot, conn stays null, no further connect is made for the
\* cache, and every later call on it awaits that promise and rejects with
\* that same failure.
C9_FailureIsStickySameError ==
    [][\A k \in CacheIds :
          Failed(k) =>
             /\ caches'[k] = caches[k]
             /\ caches[k].conn = 0
             /\ ConnectsOn(k)' = ConnectsOn(k)
             /\ \A c \in Callers :
                   /\ (Call(c) /\ cached = k)
                        => /\ callers'[c].pc = "awaiting"
                           /\ callers'[c].awaits = caches[k].promise
                   /\ (Resume(c) /\ callers[c].cache = k)
                        => /\ callers'[c].result = "err_connect"
                           /\ callers'[c].value = caches[k].promise]_vars

\* C9 as amended: once the attempt of a cache has failed, the rejected promise
\* stays in the slot, conn stays null and no further connect is made for the
\* cache; a later call on it made while the URI is set awaits that promise and
\* rejects with that same failure, and one made while the URI is unset rejects
\* with the missing-configuration error instead.
C9_FailureIsSticky ==
    [][\A k \in CacheIds :
          Failed(k) =>
             /\ caches'[k] = caches[k]
             /\ caches[k].conn = 0
             /\ ConnectsOn(k)' = ConnectsOn(k)
             /\ \A c \in Callers :
                   /\ (Call(c) /\ cached = k)
                        => IF uri
                           THEN /\ callers'[c].pc = "awaiting"
                                /\ callers'[c].awaits = caches[k].promise
                           ELSE callers'[c].result = "err_config"
                   /\ (Resume(c) /\ callers[c].cache = k)
                        => /\ callers'[c].result = "err_connect"
                           /\ callers'[c].value = caches[k].promise]_vars

\* C9 witness: a call made after the attempt had failed has itself rejected
\* with that failure, and the cache still holds the rejected promise and no
\* connection.
C9_Witness ==
    \E c \in Callers :
        /\ callers[c].late
        /\ callers[c].result = "err_connect"
        /\ caches[callers[c].cache].promise = callers[c].value
        /\ caches[callers[c].cache].conn = 0
        /\ ConnectsOn(callers[c].cache) = 1

(***************************************************************************)
(* Event save(): claims C5, C6, C7, C10 (specification SpecEvent)          *)
(***************************************************************************)
\* this step is a save() that was accepted
SaveAccepted == Save /\ lastSave'.outcome = "ok"

\* the document has a title with a non-empty slug and passes every check and
\* conversion that does not concern the slug
AcceptableButSlug(d) ==
    /\ d.title # <<>>
    /\ slugify(d.title) # <<>>
    /\ d.description # ""
    /\ ~NewDate(d.date).nan
    /\ normalizeTime(d.time).kind = "ok"
    /\ \A other \in EventIds :
          eventStore[other].exists => eventStore[other].slug # slugify(d.title)

\* C5: on every accepted save the stored slug is slugify(title) when the
\* title was changed in this save or the slug was unset, and the slug the
\* document had before the save otherwise; and the save of a new Event with a
\* valid title and no explicit slug is accepted and stores slugify(title).
C5_SlugDerivedOnSave ==
    [][/\ SaveAccepted
          => IF "title" \in doc.modified \/ doc.slug = <<>>
             THEN eventStore'[doc.id].slug = slugify(doc.title)
             ELSE eventStore'[doc.id].slug = doc.slug
       /\ (Save /\ doc.isNew /\ doc.slug = <<>> /\ AcceptableButSlug(doc))
          => /\ lastSave'.outcome = "ok"
             /\ eventStore'[doc.id].exists
             /\ eventStore'[doc.id].slug = slugify(doc.title)]_vars

\* C6: a save() that is rejected, at whichever step, leaves the Event
\* collection exactly as it was; the collection changes only by an accepted
\* save.
C6_RejectedSaveLeavesStore ==
    [][/\ (Save /\ lastSave'.outcome # "ok") => eventStore' = eventStore
       /\ eventStore' # eventStore => SaveAccepted]_vars

\* C6 witness: a save of a new document was rejected at the time step, after
\* the hook had re-derived the slug and canonicalized the date in the
\* document, and the collection holds nothing of it.
C6_Witness ==
    /\ lastSave.outcome = "Invalid time"
    /\ doc.held /\ doc.isNew
    /\ doc.slug = <<"m","y","-","t","a","l","k">>
    /\ doc.date.fmt = "iso"
    /\ ~eventStore[doc.id].exists

\* HH:MM, zero-padded, hour 00..23 and minute 00..59
IsCanonicalTime(s) ==
    /\ Len(s) = 5
    /\ s[3] = ":"
    /\ \A i \in {1, 2, 4, 5} : IsDigit(s[i])
    /\ 10 * DigitVal(s[1]) + DigitVal(s[2]) <= 23
    /\ 10 * DigitVal(s[4]) + DigitVal(s[5]) <= 59

\* C7: every stored Event's time is canonical HH:MM and its date is in the
\* ISO form; an accepted save stores the ISO form of the very instant the
\* supplied date denotes; and re-saving a stored Event whose date and time
\* were not assigned leaves both unchanged.
C7_StoredDateTimeCanonical ==
    [][/\ \A id \in EventIds :
             eventStore'[id].exists
             => /\ IsCanonicalTime(eventStore'[id].time)
                /\ eventStore'[id].date.fmt = "iso"
       /\ SaveAccepted
          => /\ NewDate(eventStore'[doc.id].date) = NewDate(doc.date)
             /\ (~doc.isNew /\ doc.modified \cap {"date", "time"} = {})
                => /\ eventStore'[doc.id].date = eventStore[doc.id].date
                   /\ eventStore'[doc.id].time = eventStore[doc.id].time]_vars

\* C7 witness: a stored Event, created from the raw time "2:30 PM" and a
\* date-only text, has been loaded, changed in its description only and saved
\* again.
C7_Witness ==
    /\ lastSave = [outcome |-> "ok", isNew |-> FALSE]
    /\ doc.held /\ ~doc.isNew
    /\ eventStore[doc.id].exists
    /\ eventStore[doc.id].description = "d2"
    /\ eventStore[doc.id].time = <<"1","4",":","3","0">>
    /\ eventStore[doc.id].date = [fmt |-> "iso", day |-> 3, min |-> 0]

\* C10: every stored Event has a non-empty slug.
C10_StoredSlugNonEmpty ==
    \A id \in EventIds : eventStore[id].exists => eventStore[id].slug # <<>>

(***************************************************************************)
(* Booking save(): claim C4 (specification SpecBooking)                    *)
(***************************************************************************)
\* C4: every stored Booking was inserted by a save() whose own lookup had
\* completed and found its Event; a save() whose lookup finds none is rejected
\* with 'Referenced Event does not exist', one whose lookup fails is rejected
\* with the lookup's error, and neither changes the stored Bookings; the
\* collection changes only by the insert of a save() that has passed the check.
C4_InsertOnlyAfterEventFound ==
    [][/\ \A b \in bookingStore' : b.sawEvent
       /\ \A s \in Savers :
             /\ (LookupReturns(s) /\ ~eventStore[bsave[s].eventId].exists)
                  => /\ bsave'[s] = Rejected("Referenced Event does not exist")
                     /\ bookingStore' = bookingStore
             /\ (LookupReturns(s) /\ eventStore[bsave[s].eventId].exists)
                  => bsave'[s].pc = "checked" /\ bookingStore' = bookingStore
             /\ LookupFails(s)
                  => bsave'[s].pc = "rejected" /\ bookingStore' = bookingStore
       /\ bookingStore' # bookingStore
             => \E s \in Savers :
                   /\ BookingInsert(s)
                   /\ bsave[s].pc = "checked"
                   /\ bsave[s].exists]_vars

\* C4 witness: one save() has been rejected because its Event did not exist,
\* and a stored Booking, inserted after a successful lookup, now refers to an
\* Event that has been deleted since.
C4_Witness ==
    /\ \E s \in Savers : bsave[s].error = "Referenced Event does not exist"
    /\ \E b \in bookingStore : b.sawEvent /\ ~eventStore[b.eventId].exists

(***************************************************************************)
(* normalizeTime: claim C8 (specification SpecTime)                        *)
(***************************************************************************)
AmSpellings == {<<"a","m">>, <<"A","M">>}

PmSpellings == {<<"p","m">>, <<"p","M">>}

\* the text is of the 24-hour grammar H:MM / HH:MM
Is24HourText(t) == t.mer = <<>> /\ t.colon /\ t.hw <= 2 /\ t.mw = 2

\* the text is of the 12-hour grammar H[:MM] am|pm
Is12HourText(t) ==
    /\ t.mer \in AmSpellings \cup PmSpellings
    /\ t.hw <= 2
    /\ (t.colon /\ t.mw = 2) \/ (~t.colon /\ t.mw = 0)

HHMM(h, m) ==
    <<DigitChars[(h \div 10) + 1], DigitChars[(h % 10) + 1], ":",
      DigitChars[(m \div 10) + 1], DigitChars[(m % 10) + 1]>>

\* the reference conversion
ReferenceTime(t) ==
    IF Is24HourText(t)
    THEN IF t.h <= 23 /\ t.m <= 59
         THEN [kind |-> "ok", value |-> HHMM(t.h, t.m)]
         ELSE [kind |-> "Invalid time", value |-> <<>>]
    ELSE IF Is12HourText(t)
    THEN IF t.h >= 1 /\ t.h <= 12 /\ t.m <= 59
         THEN [kind |-> "ok",
               value |-> HHMM(IF t.mer \in AmSpellings
                              THEN (IF t.h = 12 THEN 0 ELSE t.h)
                              ELSE (IF t.h = 12 THEN 12 ELSE t.h + 12), t.m)]
         ELSE [kind |-> "Invalid time", value |-> <<>>]
    ELSE [kind |-> "Unrecognized time format", value |-> <<>>]

\* C8: on every text normalizeTime gives what the reference conversion gives:
\* the zero-padded 24-hour time for a text of either grammar within its range,
\* 'Invalid time' for a text of a grammar out of its range, 'Unrecognized time
\* format' for any other text.
C8_NormalizeTimeMatchesReference ==
    timeOut.kind # "pending" => timeOut = ReferenceTime(timeIn)

\* C8 witness: " 12 pM" with surrounding blanks has been normalized to 12:00.
C8_Witness ==
    /\ timeIn = [h |-> 12, hw |-> 2, colon |-> FALSE, m |-> 0, mw |-> 0,
                 gap |-> 1, mer |-> <<"p","M">>, pad |-> TRUE]
    /\ timeOut = [kind |-> "ok", value |-> <<"1","2",":","0","0">>]

====
